---- MODULE Spec2Model ----
(***************************************************************************)
(* A model of the leetai backend: the time-window classifier and the topic *)
(* statistics aggregator of backend/analytics.py, the two-phase plan       *)
(* generation of backend/claude.py and the request handlers of             *)
(* backend/main.py over the store of backend/database.py.                  *)
(*                                                                         *)
(* Time is counted in seconds; a calendar date is a day number and the     *)
(* datetime of its midnight is day * SecondsPerDay.                        *)
(***************************************************************************)
EXTENDS Integers, Sequences, FiniteSets, TLC

VARIABLES
    now,          \* datetime.now(), in seconds
    problems,     \* table problems, in row order; a row's id is its index
    submissions,  \* table submissions, in row order
    daily_plans,  \* table daily_plans, in row order; a row's id is its index
    last_sync,    \* main._LAST_SYNC_AT, None until the first real sync
    request,      \* the call being served: operation and arguments
    response,     \* what the call returned
    trace         \* observability: the model replies the call consumed, in order

vars == <<now, problems, submissions, daily_plans, last_sync, request, response, trace>>

(***************************************************************************)
(* Bounds of the model.                                                    *)
(***************************************************************************)
MaxDay == 30          \* the latest day number of the calendar; "today" of the statistics
MaxSubs == 2          \* rows of the submissions table in the statistics specification

SecondsPerDay == 24 * 3600

\* Python's Optional: None, or a value.
None == <<>>
Some(x) == <<x>>

\* A result still to be computed.
Pending == "<pending>"

RECURSIVE SumSeq(_)
SumSeq(s) == IF s = <<>> THEN 0 ELSE Head(s) + SumSeq(Tail(s))

(***************************************************************************)
(* analytics.py: the time-window classifier.                               *)
(***************************************************************************)
WindowDays == [w \in {"3d", "7d", "14d", "28d"} |->
                 CASE w = "3d" -> 3 [] w = "7d" -> 7 [] w = "14d" -> 14 [] w = "28d" -> 28]

_get_time_windows(ref) ==
    [w \in {"3d", "7d", "14d", "28d"} |-> ref - WindowDays[w] * SecondsPerDay]

\* datetime.combine(solved_date, datetime.min.time())
MidnightOf(solved_date) == solved_date * SecondsPerDay

_which_window(solved_date, windows) ==
    LET solved_dt == MidnightOf(solved_date)
    IN  IF solved_dt >= windows["3d"] THEN "3d"
        ELSE IF solved_dt >= windows["7d"] THEN "7d"
        ELSE IF solved_dt >= windows["14d"] THEN "14d"
        ELSE IF solved_dt >= windows["28d"] THEN "28d"
        ELSE "28d+"

(***************************************************************************)
(* The classifier applied to every solved-date and reference instant of    *)
(* the calendar 0..MaxDay.                                                 *)
(***************************************************************************)
TimesOfDay == {0, 1, 15 * 3600, SecondsPerDay - 1}
Dates == 0..MaxDay
RefInstants == {d * SecondsPerDay + t : d \in Dates, t \in TimesOfDay}

EmptyStore ==
    /\ problems = <<>>
    /\ submissions = <<>>
    /\ daily_plans = <<>>
    /\ last_sync = None
    /\ trace = <<>>

InitWindow ==
    /\ now \in RefInstants
    /\ request \in [op : {"_which_window"}, solved_date : Dates]
    /\ response = Pending
    /\ EmptyStore

WhichWindow ==
    /\ request.op = "_which_window"
    /\ response = Pending
    /\ response' = _which_window(request.solved_date, _get_time_windows(now))
    /\ UNCHANGED <<now, problems, submissions, daily_plans, last_sync, request, trace>>

NextWindow == WhichWindow

SpecWindow == InitWindow /\ [][NextWindow]_vars

\* The calendar days between the solved-date and the day of the reference instant.
AgeInDays == (now \div SecondsPerDay) - request.solved_date

\* C1: every solved-date, against every reference instant, is classified into
\* one of the four buckets 3d, 7d, 14d, 28d+ and into nothing else.
C1_FourBuckets ==
    response # Pending => response \in {"3d", "7d", "14d", "28d+"}

\* C3: for N in {3, 7, 14} and any time of day of the reference instant, a
\* solved-date exactly N calendar days before it is classified into the
\* N-day bucket.
C3_ExactlyNDaysInNBucket ==
    response # Pending =>
        /\ AgeInDays = 3 => response = "3d"
        /\ AgeInDays = 7 => response = "7d"
        /\ AgeInDays = 14 => response = "14d"

(***************************************************************************)
(* analytics.py: the topic statistics aggregator.                          *)
(***************************************************************************)
\* str.lower() on the difficulty values the store holds.
Lower(s) ==
    CASE s = "Easy" -> "easy"
      [] s = "Medium" -> "medium"
      [] s = "Hard" -> "hard"
      [] OTHER -> s

\* str.strip() on the topic tags the store holds.
Strip(s) ==
    CASE s = " Graph " -> "Graph"
      [] s = "  " -> ""
      [] OTHER -> s

Difficulties == {"easy", "medium", "hard"}

\* difficulty = (problem.difficulty or "medium").lower(), then "medium" when unknown
NormalizeDifficulty(raw) ==
    LET difficulty == Lower(IF raw = "" THEN "medium" ELSE raw)
    IN  IF difficulty \notin Difficulties THEN "medium" ELSE difficulty

\* The suffix of a counter's key: '28d_plus' if window_key == '28d+' else window_key
Suffix(window_key) == IF window_key = "28d+" THEN "28d_plus" ELSE window_key

\* A counter's key f"{difficulty}_{suffix}", kept as the pair it is built from.
CounterKey(difficulty, window_key) == <<difficulty, Suffix(window_key)>>

\* The 12 keys read by stats = {"easy_3d": counts.get("easy_3d", 0), ...}.
ExposedSuffixes == {"3d", "7d", "14d", "28d_plus"}
ExposedKeys == Difficulties \X ExposedSuffixes

\* db.query(Submission, Problem).join(Problem, Submission.problem_id == Problem.id).all()
JoinedPairs(subs, probs) ==
    [i \in 1..Len(subs) |-> [submission |-> subs[i], problem |-> probs[subs[i].problem_id]]]

\* for topic in (problem.topics or []): the (pair, tag position) occurrences whose
\* trimmed tag is non-empty.
TagOccurrences(pairs) ==
    {<<i, j>> \in (1..Len(pairs)) \X (1..3) :
        /\ j <= Len(pairs[i].problem.topics)
        /\ Strip(pairs[i].problem.topics[j]) # ""}

TopicOf(pairs, occ) == Strip(pairs[occ[1]].problem.topics[occ[2]])

\* The counter one occurrence increments:
\* topic_acc[topic_name][f"{difficulty}_{...window_key}"] += 1
KeyOfOccurrence(pairs, ref, occ) ==
    CounterKey(NormalizeDifficulty(pairs[occ[1]].problem.difficulty),
               _which_window(pairs[occ[1]].submission.solved_date, _get_time_windows(ref)))

\* topic_acc[topic_name] after the loop over the pairs (a defaultdict(int): a key
\* never incremented reads 0); occs are the tag occurrences of topic_name.
TopicAcc(pairs, ref, occs) ==
    LET incremented == {<<occ, KeyOfOccurrence(pairs, ref, occ)>> : occ \in occs}
    IN  [key \in {x[2] : x \in incremented} |->
            Cardinality({x \in incremented : x[2] = key})]

\* The keys of topic_acc in insertion order: the order in which the loop first
\* meets each topic.
RECURSIVE AppendNew(_, _)
AppendNew(seq, tags) ==
    IF tags = <<>> THEN seq
    ELSE LET t == Strip(Head(tags))
         IN  AppendNew(IF t = "" \/ \E k \in 1..Len(seq) : seq[k] = t
                        THEN seq ELSE Append(seq, t),
                       Tail(tags))

RECURSIVE TopicsInOrder(_, _)
TopicsInOrder(pairs, n) ==
    IF n = 0 THEN <<>>
    ELSE AppendNew(TopicsInOrder(pairs, n - 1), pairs[n].problem.topics)

\* last_solved_by_topic[topic_name]: the maximum solved-date seen.
LastSolved(pairs, occs) ==
    LET ds == {pairs[occ[1]].submission.solved_date : occ \in occs}
    IN  IF ds = {} THEN None ELSE Some(CHOOSE d \in ds : \A e \in ds : e <= d)

\* recency_multiplier = {"3d": 1.0, "7d": 0.8, "14d": 0.5, "28d+": 0.3}, in tenths.
recency_multiplier ==
    [w \in {"3d", "7d", "14d", "28d+"} |->
        CASE w = "3d" -> 10 [] w = "7d" -> 8 [] w = "14d" -> 5 [] w = "28d+" -> 3]

\* difficulty_weight = {"easy": 1, "medium": 2, "hard": 3}
difficulty_weight ==
    [d \in Difficulties |-> CASE d = "easy" -> 1 [] d = "medium" -> 2 [] d = "hard" -> 3]

MutWeightedScoreFlat(counts) ==
    SumSeq([n \in 1..4 |->
        LET window_key == <<"3d", "7d", "14d", "28d+">>[n]
        IN  SumSeq([m \in 1..3 |->
                LET diff == <<"easy", "medium", "hard">>[m]
                IN  counts[<<diff, Suffix(window_key)>>] * difficulty_weight[diff] * 10])])

MutWeightedScorePenalty(counts) ==
    SumSeq([n \in 1..4 |->
        LET window_key == <<"3d", "7d", "14d", "28d+">>[n]
        IN  SumSeq([m \in 1..3 |->
                LET diff == <<"easy", "medium", "hard">>[m]
                IN  counts[<<diff, Suffix(window_key)>>] * difficulty_weight[diff]
                      * (IF window_key = "28d+" THEN -3 ELSE recency_multiplier[window_key])])])

\* weighted += stats.get(f"{diff}_{suffix}", 0) * diff_w * rec_mult over the two
\* loops, then round(weighted, 2). The score is kept in tenths: every term is a
\* multiple of 0.1 and rounding to two decimals removes the float error of the sum.
WeightedScore(counts) ==
    SumSeq([n \in 1..4 |->
        LET window_key == <<"3d", "7d", "14d", "28d+">>[n]
        IN  SumSeq([m \in 1..3 |->
                LET diff == <<"easy", "medium", "hard">>[m]
                IN  counts[<<diff, Suffix(window_key)>>] * difficulty_weight[diff]
                      * recency_multiplier[window_key]])])

\* The record built for one topic (schemas.TopicStats).
TopicRecord(pairs, ref, all_occs, topic_name) ==
    LET occs == {occ \in all_occs : TopicOf(pairs, occ) = topic_name}
        acc == TopicAcc(pairs, ref, occs)
        \* counts.get(key, 0) for the 12 exposed keys
        counts == [k \in ExposedKeys |-> IF k \in DOMAIN acc THEN acc[k] ELSE 0]
    IN  [topic |-> topic_name,
         counts |-> counts,
         last_solved_date |-> LastSolved(pairs, occs),
         weighted_score |-> WeightedScore(counts)]

\* list.sort(key=..., reverse=descending): a stable insertion sort on weighted_score.
RECURSIVE InsertSorted(_, _, _)
InsertSorted(sorted, rec, descending) ==
    IF sorted = <<>> THEN <<rec>>
    ELSE LET last == sorted[Len(sorted)]
             before == IF descending THEN last.weighted_score >= rec.weighted_score
                                     ELSE last.weighted_score <= rec.weighted_score
         IN  IF before THEN Append(sorted, rec)
             ELSE Append(InsertSorted(SubSeq(sorted, 1, Len(sorted) - 1), rec, descending), last)

RECURSIVE SortByScore(_, _, _)
SortByScore(recs, n, descending) ==
    IF n = 0 THEN <<>>
    ELSE InsertSorted(SortByScore(recs, n - 1, descending), recs[n], descending)

calculate_topic_stats(subs, probs, ref) ==
    LET pairs == JoinedPairs(subs, probs)
        names == TopicsInOrder(pairs, Len(pairs))
        all_occs == TagOccurrences(pairs)
        topic_stats == [k \in 1..Len(names) |-> TopicRecord(pairs, ref, all_occs, names[k])]
    IN  SortByScore(topic_stats, Len(topic_stats), TRUE)

(***************************************************************************)
(* The statistics over a store filled row by row, as the import scripts    *)
(* fill it, and read by GET /api/stats/topics.                             *)
(***************************************************************************)
Today == MaxDay

\* Rows of the import file: the repository's own scenario (Two Sum, Median of Two
\* Sorted Arrays) and a problem whose difficulty and tags need normalising.
ProblemPool ==
    { [leetcode_number |-> 1, title |-> "Two Sum", difficulty |-> "easy",
       topics |-> <<"Array", "Hash Table">>],
      [leetcode_number |-> 4, title |-> "Median of Two Sorted Arrays", difficulty |-> "hard",
       topics |-> <<"Array">>],
      [leetcode_number |-> 200, title |-> "Number of Islands", difficulty |-> "unknown",
       topics |-> <<" Graph ", "  ">>] }

\* How many days before Today a row was solved.
Ages == {0, 5, 10, 20, 30}

AttemptValues == {1}

ProblemIdOf(probs, leetcode_number) ==
    IF \E k \in 1..Len(probs) : probs[k].leetcode_number = leetcode_number
    THEN CHOOSE k \in 1..Len(probs) : probs[k].leetcode_number = leetcode_number
    ELSE 0

\* INSERT INTO problems ... ON CONFLICT (leetcode_number) DO UPDATE SET ...
UpsertProblem(probs, p) ==
    LET k == ProblemIdOf(probs, p.leetcode_number)
    IN  IF k = 0 THEN Append(probs, p) ELSE [probs EXCEPT ![k] = p]

\* One row of import_historical_csv: upsert the problem, insert the submission.
StoreAfterImport(p, solved_date, attempts) ==
    LET probs == UpsertProblem(problems, p)
    IN  [problems |-> probs,
         submissions |-> Append(submissions,
             [problem_id |-> ProblemIdOf(probs, p.leetcode_number),
              solved_date |-> solved_date, attempts |-> attempts])]

ImportRow(p, solved_date, attempts) ==
    /\ Len(submissions) < MaxSubs
    /\ problems' = StoreAfterImport(p, solved_date, attempts).problems
    /\ submissions' = StoreAfterImport(p, solved_date, attempts).submissions
    /\ request' = [op |-> "import_row"]
    /\ response' = None
    /\ UNCHANGED <<now, daily_plans, last_sync, trace>>

\* GET /api/stats/topics
get_topic_stats_endpoint ==
    /\ request' = [op |-> "get_topic_stats"]
    /\ response' = calculate_topic_stats(submissions, problems, now)
    /\ UNCHANGED <<now, problems, submissions, daily_plans, last_sync, trace>>

InitStats ==
    /\ now = Today * SecondsPerDay + 15 * 3600
    /\ request = [op |-> "none"]
    /\ response = None
    /\ EmptyStore

NextStats ==
    \/ \E p \in ProblemPool, age \in Ages, a \in AttemptValues : ImportRow(p, Today - age, a)
    \/ get_topic_stats_endpoint

SpecStats == InitStats /\ [][NextStats]_vars

\* The topic statistics of the store as it is.
TopicStatsNow == calculate_topic_stats(submissions, problems, now)

\* The endpoint has answered for the store as it is.
StatsAnswered ==
    /\ request.op = "get_topic_stats"
    /\ response = TopicStatsNow

\* How many (submission, tag occurrence) contributions a topic has received.
Contributions(topic_name) ==
    LET pairs == JoinedPairs(submissions, problems)
    IN  Cardinality({occ \in TagOccurrences(pairs) : TopicOf(pairs, occ) = topic_name})

SumOfExposedCounts(rec) ==
    LET keys == [n \in 1..12 |->
                    << <<"easy", "medium", "hard">>[((n - 1) % 3) + 1],
                       <<"3d", "7d", "14d", "28d_plus">>[((n - 1) \div 3) + 1] >>]
    IN  SumSeq([n \in 1..12 |-> rec.counts[keys[n]]])

\* C2: for every topic, the sum of its 12 exposed counts equals the number of
\* (submission, tag occurrence) contributions to it, whatever the solved-dates.
C2_CountsSumToContributions ==
    \A stats \in {TopicStatsNow} :
        \A k \in 1..Len(stats) :
            SumOfExposedCounts(stats[k]) = Contributions(stats[k].topic)

\* The score of a record written out over its 12 counts, in tenths:
\* easy 1, medium 2, hard 3 times 3d 1.0, 7d 0.8, 14d 0.5, 28d+ 0.3.
ScoreInTenths(c) ==
      10 * c[<<"easy", "3d">>] + 20 * c[<<"medium", "3d">>] + 30 * c[<<"hard", "3d">>]
    +  8 * c[<<"easy", "7d">>] + 16 * c[<<"medium", "7d">>] + 24 * c[<<"hard", "7d">>]
    +  5 * c[<<"easy", "14d">>] + 10 * c[<<"medium", "14d">>] + 15 * c[<<"hard", "14d">>]
    +  3 * c[<<"easy", "28d_plus">>] + 6 * c[<<"medium", "28d_plus">>]
    +  9 * c[<<"hard", "28d_plus">>]

\* The scenario of the repository: Two Sum (easy) solved today and Median of Two
\* Sorted Arrays (hard) solved 10 days ago, and nothing else.
ArrayScenario ==
    /\ Len(submissions) = 2
    /\ \E i, j \in 1..2 :
        /\ problems[submissions[i].problem_id].leetcode_number = 1
        /\ submissions[i].solved_date = Today
        /\ problems[submissions[j].problem_id].leetcode_number = 4
        /\ submissions[j].solved_date = Today - 10

\* C4: every topic record's weighted_score is the sum over its 12 exposed counts
\* of count x difficulty weight x recency multiplier; one easy solve today and one
\* hard solve 10 days ago, both tagged Array, score 2.5 for Array.
C4_WeightedScore ==
    \A stats \in {TopicStatsNow} :
        /\ \A k \in 1..Len(stats) : stats[k].weighted_score = ScoreInTenths(stats[k].counts)
        /\ ArrayScenario =>
              \E k \in 1..Len(stats) :
                  stats[k].topic = "Array" /\ stats[k].weighted_score = 25

C4_Witness ==
    /\ ArrayScenario
    /\ StatsAnswered
    /\ \E k \in 1..Len(response) : response[k].topic = "Array" /\ response[k].weighted_score = 25

\* The weighted score the statistics give a topic; 0 for a topic without a record.
ScoreOf(stats, topic_name) ==
    IF \E k \in 1..Len(stats) : stats[k].topic = topic_name
    THEN (CHOOSE r \in {stats[k] : k \in 1..Len(stats)} : r.topic = topic_name).weighted_score
    ELSE 0

TopicNames == {"Array", "Hash Table", "Graph"}

\* C5: every weighted_score is >= 0, and adding a submission (the reference time
\* unchanged) lowers the weighted_score of no topic.
C5_ScoreMonotone ==
    \A before \in {TopicStatsNow} :
        /\ \A t \in TopicNames : ScoreOf(before, t) >= 0
        /\ \A p \in ProblemPool, age \in Ages, a \in AttemptValues :
              \A after \in {StoreAfterImport(p, Today - age, a)} :
                  \A stats \in {calculate_topic_stats(after.submissions, after.problems, now)} :
                      \A t \in TopicNames : ScoreOf(stats, t) >= ScoreOf(before, t)

C5_Witness ==
    /\ Len(submissions) = 2
    /\ ScoreOf(TopicStatsNow, "Array") > 10
    /\ StatsAnswered

(***************************************************************************)
(* claude.py: what the model returns and how it is parsed.                 *)
(*                                                                         *)
(* A JSON value is a tagged record. A JSON object (a Python dict) carries  *)
(* the five keys the code reads; a key the object lacks holds Absent.      *)
(***************************************************************************)
Absent == [t |-> "absent"]
JNull == [t |-> "null"]
JStr(s) == [t |-> "str", v |-> s]
JList(items) == [t |-> "list", v |-> items]
JNumber == [t |-> "number"]
JArray == [t |-> "array"]

\* {}
EmptyDict ==
    [t |-> "dict", new_topic |-> Absent, review_topics |-> Absent,
     focus_topic |-> Absent, recommendations |-> Absent, rationale |-> Absent]

\* A text is the JSON document it holds and how it holds it:
\*   "json"        the text is exactly the document,
\*   "prose_json"  prose surrounds a JSON object,
\*   "broken"      braces with no JSON between the first "{" and the last "}",
\*   "prose"       no braces at all.
Text(shape, value) == [shape |-> shape, value |-> value]

\* The minimal structure _parse_response falls back to.
ParseFallback ==
    [EmptyDict EXCEPT !.focus_topic = JStr("General Review"),
                      !.recommendations = JList(<<>>),
                      !.rationale = JStr("Failed to parse structured response; please retry.")]

\* json.loads(text); else json.loads(text[start : end + 1]); else the fallback.
_parse_response(text) ==
    IF text.shape = "json" THEN text.value
    ELSE IF text.shape = "prose_json" THEN text.value
    ELSE ParseFallback

\* A reply of the model: the call raised, or it returned a text.
CallFailed == [ok |-> FALSE]
Reply(text) == [ok |-> TRUE, text |-> text]

\* content_text after the try/except around the call: "{}" when the call raised.
ContentText(reply) == IF reply.ok THEN reply.text ELSE Text("json", EmptyDict)

\* The outcome of a call that can raise: a value, or the exception.
Raised == [raised |-> TRUE]
Returned(value) == [raised |-> FALSE, value |-> value]

Decision(new_topic, review_topics) ==
    [EmptyDict EXCEPT !.new_topic = new_topic, !.review_topics = review_topics]

\* fallback = {"new_topic": "Arrays", "review_topics": ["Two Pointers"]}
HardCodedDecision == Decision(JStr("Arrays"), JList(<<"Two Pointers">>))

\* ClaudeClient.generate_topics_decision: Prompt 1, parse, "ensure keys exist".
\* '"new_topic" not in parsed' raises TypeError on a number or null, is true of an
\* array, and looks the key up in a dict.
generate_topics_decision(reply) ==
    LET parsed == _parse_response(ContentText(reply))
    IN  IF parsed.t \in {"number", "null"} THEN Raised
        ELSE IF parsed.t # "dict" THEN Returned(HardCodedDecision)
        ELSE IF parsed.new_topic = Absent \/ parsed.review_topics.t # "list"
             THEN Returned(HardCodedDecision)
        ELSE Returned(parsed)

\* schemas.TopicsDecision(**decision): a non-null new_topic and a list review_topics.
TopicsDecisionValid(decision) ==
    /\ decision.new_topic.t = "str"
    /\ decision.review_topics.t = "list"

\* The fallback of the handlers: sorted(topic_stats, key=weighted_score), the
\* lowest-scoring topic as new_topic and the next two as review_topics.
FallbackDecision(topic_stats) ==
    LET fallback_topics == SortByScore(topic_stats, Len(topic_stats), FALSE)
        new_topic == IF fallback_topics # <<>> THEN fallback_topics[1].topic ELSE "Arrays"
        review_topics ==
            IF Len(fallback_topics) > 1
            THEN [k \in 1..(IF Len(fallback_topics) >= 3 THEN 2 ELSE 1) |->
                     fallback_topics[k + 1].topic]
            ELSE <<>>
    IN  Decision(JStr(new_topic), JList(review_topics))

\* Phase 1 as both handlers run it: the model's decision, validated, else the fallback.
DecideTopics(topic_stats, reply) ==
    LET got == generate_topics_decision(reply)
    IN  IF got.raised THEN Raised
        ELSE IF TopicsDecisionValid(got.value) THEN got
        ELSE Returned(FallbackDecision(topic_stats))

\* f"https://leetcode.com/problems/{slug}/description/" with slug =
\* title.lower().replace(" ", "-")..., on the titles the model names.
SynthesizedUrl(title) ==
    CASE title = "Two Sum" -> "https://leetcode.com/problems/two-sum/description/"
      [] title = "Median of Two Sorted Arrays" ->
             "https://leetcode.com/problems/median-of-two-sorted-arrays/description/"
      [] title = "Number of Islands" ->
             "https://leetcode.com/problems/number-of-islands/description/"
      [] OTHER -> "https://leetcode.com/problems/<slug>/description/"

\* One recommendation of the model's plan: a JSON object with estimated_minutes 0
\* and leetcode_url "" and title "" standing for a missing key.
Rec(leetcode_number, title, estimated_minutes, leetcode_url) ==
    [t |-> "dict", leetcode_number |-> leetcode_number, title |-> title,
     estimated_minutes |-> estimated_minutes, leetcode_url |-> leetcode_url]

\* rec.setdefault("estimated_minutes", 25) and the synthesized leetcode_url.
PostProcessRec(rec) ==
    [rec EXCEPT !.estimated_minutes = IF @ = 0 THEN 25 ELSE @,
                !.leetcode_url = IF @ = "" /\ rec.title # ""
                                 THEN SynthesizedUrl(rec.title) ELSE @]

\* x or default, for a JSON value read with dict.get
OrDefault(x, default) ==
    IF x = Absent \/ x = JNull \/ x = JStr("") \/ x = JList(<<>>) THEN default ELSE x

\* ClaudeClient.generate_daily_plan_from_problems: Prompt 2, parse, "ensure
\* required keys", post-process. Item assignment on a parsed value that is no dict
\* raises, and so does rec.setdefault on a recommendation that is no dict.
generate_daily_plan_from_problems(topic_decision, reply) ==
    LET parsed == _parse_response(ContentText(reply))
    IN  IF parsed.t # "dict" THEN Raised
        ELSE LET recommendations ==
                     IF parsed.recommendations.t # "list" THEN JList(<<>>)
                     ELSE parsed.recommendations
                 focus_topic ==
                     IF parsed.focus_topic = Absent
                     THEN OrDefault(topic_decision.new_topic, JStr("General Review"))
                     ELSE parsed.focus_topic
             IN  IF \E k \in 1..Len(recommendations.v) : recommendations.v[k].t # "dict"
                 THEN Raised
                 ELSE Returned([parsed EXCEPT
                          !.recommendations =
                              JList([k \in 1..Len(recommendations.v) |->
                                        PostProcessRec(recommendations.v[k])]),
                          !.focus_topic = focus_topic])

(***************************************************************************)
(* main.py: the plan handlers over the daily_plans table.                  *)
(*                                                                         *)
(* A DailyPlan row's id is its position in daily_plans: rows are only ever *)
(* appended. created_at is left out of rows and responses.                 *)
(***************************************************************************)
MaxPlans == 2

Http(status, body) == [status |-> status, body |-> body]

\* datetime.now().date()
TodayOf(instant) == instant \div SecondsPerDay

\* date or datetime.now().date()
PlanDate(date) == IF date = None THEN TodayOf(now) ELSE date[1]

\* SQL's "= NULL", which no row satisfies, in place of IS NULL.
MutSqlEqNullNeverEqual(column, value) ==
    column # None /\ value # None /\ column = value

\* column == value as SQLAlchemy renders it: IS NULL for None, = otherwise
SqlEq(column, value) ==
    IF value = None THEN column = None ELSE column # None /\ column = value

\* The cache lookup's filter without the condition on available_time_minutes.
MutMatchingPlansIgnoresBudget(plans, plan_date, time_minutes, custom_instructions) ==
    {id \in 1..Len(plans) :
        /\ plans[id].plan_date = plan_date
        /\ SqlEq(plans[id].custom_instructions, custom_instructions)}

\* The ids of the rows the cache lookup's filter selects.
MatchingPlans(plans, plan_date, time_minutes, custom_instructions) ==
    {id \in 1..Len(plans) :
        /\ plans[id].plan_date = plan_date
        /\ SqlEq(Some(plans[id].available_time_minutes), time_minutes)
        /\ SqlEq(plans[id].custom_instructions, custom_instructions)}

\* query.first(): LIMIT 1 with no ORDER BY. Of several matching rows the database
\* may return any one; 0 stands for no row.
FirstOf(ids) == IF ids = {} THEN {0} ELSE ids

\* The response dict both plan handlers build from a row.
PlanResponse(id, plan, is_cached) ==
    [id |-> id,
     plan_date |-> plan.plan_date,
     available_time_minutes |-> plan.available_time_minutes,
     focus_topic |-> plan.focus_topic,
     recommendations |-> plan.problem_recommendations,
     ai_rationale |-> plan.ai_rationale,
     is_cached |-> is_cached]

DailyPlan(plan_date, time_minutes, custom_instructions, recommendations, focus_topic, ai_rationale) ==
    [plan_date |-> plan_date,
     available_time_minutes |-> time_minutes,
     custom_instructions |-> custom_instructions,
     problem_recommendations |-> recommendations,
     focus_topic |-> focus_topic,
     ai_rationale |-> ai_rationale]

\* What a request meets outside the program: whether ANTHROPIC_API_KEY is set,
\* the replies of the model to Prompt 1 and Prompt 2, and whether the read of the
\* candidate problems succeeds.
Env(api_key, llm1, fetch_ok, llm2) ==
    [api_key |-> api_key, llm1 |-> llm1, fetch_ok |-> fetch_ok, llm2 |-> llm2]

\* The try block with a candidate fetch whose failure is swallowed: Phase 2 is
\* skipped and an empty plan goes on to be persisted.
MutTwoStepFlowSwallowsFetchFailure(topic_stats, env) ==
    IF ~env.api_key THEN [raised |-> TRUE, trace |-> <<>>]
    ELSE LET decision == DecideTopics(topic_stats, env.llm1)
         IN  IF decision.raised
             THEN [raised |-> TRUE, trace |-> <<env.llm1>>]
             ELSE IF ~env.fetch_ok
             THEN [raised |-> FALSE, value |-> EmptyDict, trace |-> <<env.llm1>>]
             ELSE LET plan == generate_daily_plan_from_problems(decision.value, env.llm2)
                  IN  IF plan.raised
                      THEN [raised |-> TRUE, trace |-> <<env.llm1, env.llm2>>]
                      ELSE [raised |-> FALSE, value |-> plan.value,
                            trace |-> <<env.llm1, env.llm2>>]

\* The try block of get_daily_plan: ClaudeClient(), Phase 1 with validation or
\* fallback, the candidate fetch, Phase 2. Any exception ends it.
TwoStepFlow(topic_stats, env) ==
    IF ~env.api_key THEN [raised |-> TRUE, trace |-> <<>>]
    ELSE LET decision == DecideTopics(topic_stats, env.llm1)
         IN  IF decision.raised \/ ~env.fetch_ok
             THEN [raised |-> TRUE, trace |-> <<env.llm1>>]
             ELSE LET plan == generate_daily_plan_from_problems(decision.value, env.llm2)
                  IN  IF plan.raised
                      THEN [raised |-> TRUE, trace |-> <<env.llm1, env.llm2>>]
                      ELSE [raised |-> FALSE, value |-> plan.value,
                            trace |-> <<env.llm1, env.llm2>>]

\* db.add(record); db.commit(); db.refresh(record); return {..., "is_cached": False}
PersistAndReturn(record) ==
    /\ Len(daily_plans) < MaxPlans
    /\ daily_plans' = Append(daily_plans, record)
    /\ response' = Http(200, PlanResponse(Len(daily_plans) + 1, record, FALSE))

\* GET /api/daily-plan
get_daily_plan(date, time_minutes, custom_instructions, env) ==
    LET plan_date == PlanDate(date)
    IN  /\ request' = [op |-> "get_daily_plan", date |-> date, time_minutes |-> time_minutes,
                       custom_instructions |-> custom_instructions]
        /\ \E existing \in FirstOf(MatchingPlans(daily_plans, plan_date, time_minutes,
                                                 custom_instructions)) :
              IF existing # 0
              THEN /\ response' = Http(200, PlanResponse(existing, daily_plans[existing], TRUE))
                   /\ trace' = <<>>
                   /\ UNCHANGED daily_plans
              ELSE IF time_minutes = None
              THEN /\ response' = Http(400, None)
                   /\ trace' = <<>>
                   /\ UNCHANGED daily_plans
              ELSE \E flow \in {TwoStepFlow(calculate_topic_stats(submissions, problems, now),
                                            env)} :
                      /\ trace' = flow.trace
                      /\ IF flow.raised
                         THEN /\ response' = Http(500, None)
                              /\ UNCHANGED daily_plans
                         ELSE PersistAndReturn(DailyPlan(
                                  plan_date, time_minutes[1], custom_instructions,
                                  OrDefault(flow.value.recommendations, JList(<<>>)).v,
                                  OrDefault(flow.value.focus_topic, JStr("General Review")).v,
                                  OrDefault(flow.value.rationale, JStr("")).v))
        /\ UNCHANGED <<now, problems, submissions, last_sync>>

\* POST /api/daily-plan/confirm: the candidate fetch, ClaudeClient(), Phase 2,
\* then always an insert. An exception leaves the handler as a 500.
confirm_daily_plan(body, env) ==
    /\ request' = [op |-> "confirm_daily_plan", body |-> body]
    /\ IF ~env.fetch_ok \/ ~env.api_key
       THEN /\ response' = Http(500, None)
            /\ trace' = <<>>
            /\ UNCHANGED daily_plans
       ELSE \E plan \in {generate_daily_plan_from_problems(body.decision, env.llm2)} :
               /\ trace' = <<env.llm2>>
               /\ IF plan.raised
                  THEN /\ response' = Http(500, None)
                       /\ UNCHANGED daily_plans
                  ELSE PersistAndReturn(DailyPlan(
                           PlanDate(body.date), body.time_minutes, body.custom_instructions,
                           OrDefault(plan.value.recommendations, JList(<<>>)).v,
                           OrDefault(plan.value.focus_topic, body.decision.new_topic).v,
                           OrDefault(plan.value.rationale, JStr("")).v))
    /\ UNCHANGED <<now, problems, submissions, last_sync>>

\* GET /api/daily-plan/topics-preview: Phase 1 only, nothing is stored.
preview_daily_plan_topics(time_minutes, custom_instructions, env) ==
    /\ request' = [op |-> "preview_daily_plan_topics", time_minutes |-> time_minutes,
                   custom_instructions |-> custom_instructions]
    /\ IF time_minutes < 15 \/ time_minutes > 480
       THEN response' = Http(422, None) /\ trace' = <<>>
       ELSE IF ~env.api_key
       THEN response' = Http(500, None) /\ trace' = <<>>
       ELSE \E decision \in {DecideTopics(calculate_topic_stats(submissions, problems, now),
                                         env.llm1)} :
               /\ trace' = <<env.llm1>>
               /\ response' = IF decision.raised THEN Http(500, None)
                              ELSE Http(200, [new_topic |-> decision.value.new_topic.v,
                                              review_topics |-> decision.value.review_topics.v])
    /\ UNCHANGED <<now, problems, submissions, daily_plans, last_sync>>

(***************************************************************************)
(* main.py: POST /api/sync.                                                *)
(***************************************************************************)
MIN_SYNC_SECONDS == 60

\* The limiter's condition for raising HTTPException(429).
LimiterRaises(last, instant) ==
    last # None /\ instant - last[1] < MIN_SYNC_SECONDS

\* The limiter raises inside "try: ... except Exception: pass". HTTPException is an
\* Exception, so the handler catches its own 429 and proceeds: no request is rejected.
RateLimited(last, instant) ==
    IF LimiterRaises(last, instant) THEN FALSE ELSE FALSE

\* Problem(...) built from a fetched item: item.get("topics", []) or ["Unknown"]
ProblemOfItem(item) ==
    [leetcode_number |-> item.leetcode_number, title |-> item.title,
     difficulty |-> item.difficulty,
     topics |-> IF item.topics = <<>> THEN <<"Unknown">> ELSE item.topics]

\* The session during the loop: the rows the database has (problems, flushed),
\* the Submissions added but not yet flushed (the session has autoflush off, so
\* a query does not see them), the keys of existing_problems, and the counts.
SyncStart(probs, subs) ==
    [problems |-> probs, flushed |-> subs, pending |-> <<>>,
     known |-> {probs[k].leetcode_number : k \in 1..Len(probs)},
     new_problems |-> 0, new_submissions |-> 0]

\* The loop body without the lookup of an existing Submission.
MutSyncItemSkipsLookup(acc, item, dry_run) ==
    LET is_new == item.leetcode_number \notin acc.known
        afterProblem ==
            IF ~is_new THEN acc
            ELSE [acc EXCEPT
                    !.problems = IF dry_run THEN @ ELSE Append(@, ProblemOfItem(item)),
                    !.flushed = IF dry_run THEN @ ELSE @ \o acc.pending,
                    !.pending = IF dry_run THEN @ ELSE <<>>,
                    !.known = @ \cup {item.leetcode_number},
                    !.new_problems = @ + 1]
        problem_id == ProblemIdOf(afterProblem.problems, item.leetcode_number)
    IN  [afterProblem EXCEPT
            !.new_submissions = @ + 1,
            !.pending = IF dry_run THEN @
                        ELSE Append(@, [problem_id |-> problem_id,
                                        solved_date |-> item.solved_date,
                                        attempts |-> 1])]

\* One pass of the loop body over a fetched item.
SyncItem(acc, item, dry_run) ==
    LET is_new == item.leetcode_number \notin acc.known
        afterProblem ==
            IF ~is_new THEN acc
            ELSE [acc EXCEPT
                    !.problems = IF dry_run THEN @ ELSE Append(@, ProblemOfItem(item)),
                    !.flushed = IF dry_run THEN @ ELSE @ \o acc.pending,
                    !.pending = IF dry_run THEN @ ELSE <<>>,
                    !.known = @ \cup {item.leetcode_number},
                    !.new_problems = @ + 1]
        problem_id == ProblemIdOf(afterProblem.problems, item.leetcode_number)
        existing_submission ==
            /\ ~dry_run
            /\ \E k \in 1..Len(afterProblem.flushed) :
                  /\ afterProblem.flushed[k].problem_id = problem_id
                  /\ afterProblem.flushed[k].solved_date = item.solved_date
    IN  IF existing_submission THEN afterProblem
        ELSE [afterProblem EXCEPT
                !.new_submissions = @ + 1,
                !.pending = IF dry_run THEN @
                            ELSE Append(@, [problem_id |-> problem_id,
                                            solved_date |-> item.solved_date,
                                            attempts |-> 1])]

RECURSIVE SyncLoop(_, _, _, _)
SyncLoop(acc, fetched, k, dry_run) ==
    IF k > Len(fetched) THEN acc
    ELSE SyncLoop(SyncItem(acc, fetched[k], dry_run), fetched, k + 1, dry_run)

SyncResponse(new_problems, new_submissions, message) ==
    [new_problems |-> new_problems, new_submissions |-> new_submissions,
     message |-> message]

\* The commit and the timestamp without the "if not dry_run".
MutCommitSyncAlways(done, dry_run) ==
    /\ problems' = done.problems
    /\ submissions' = done.flushed \o done.pending
    /\ last_sync' = Some(now)

\* The end of the handler: "if not dry_run: db.commit(); _set_last_sync()".
CommitSync(done, dry_run) ==
    IF dry_run
    THEN UNCHANGED <<problems, submissions, last_sync>>
    ELSE /\ problems' = done.problems
         /\ submissions' = done.flushed \o done.pending
         /\ last_sync' = Some(now)

\* POST /api/sync. fetch is what LeetCodeClient.fetch_recent_submissions gives:
\* [ok |-> FALSE] when it raises, else the list of fetched items.
sync_leetcode_data(dry_run, fetch) ==
    /\ request' = [op |-> "sync_leetcode_data", dry_run |-> dry_run]
    /\ trace' = IF RateLimited(last_sync, now) THEN <<>> ELSE <<fetch>>
    /\ IF RateLimited(last_sync, now)
       THEN /\ response' = Http(429, None)
            /\ UNCHANGED <<problems, submissions, last_sync>>
       ELSE IF ~fetch.ok
       THEN /\ response' = Http(502, None)
            /\ UNCHANGED <<problems, submissions, last_sync>>
       ELSE IF fetch.items = <<>>
       THEN /\ response' = Http(200, SyncResponse(0, 0, "No new submissions since last sync."))
            /\ UNCHANGED <<problems, submissions, last_sync>>
       ELSE \E done \in {SyncLoop(SyncStart(problems, submissions), fetch.items, 1, dry_run)} :
               /\ response' = Http(200, SyncResponse(done.new_problems, done.new_submissions,
                                   IF dry_run THEN "dry-run: True. Added ..." ELSE "Added ..."))
               /\ CommitSync(done, dry_run)
    /\ UNCHANGED <<now, daily_plans>>

(***************************************************************************)
(* The service: a store that already holds a practice history, and the     *)
(* plan, preview and sync requests arriving one at a time.                 *)
(***************************************************************************)
\* Two Sum solved today, Median of Two Sorted Arrays 10 days ago, Number of
\* Islands 20 days ago.
HistoryProblems ==
    << [leetcode_number |-> 1, title |-> "Two Sum", difficulty |-> "easy",
        topics |-> <<"Array", "Hash Table">>],
       [leetcode_number |-> 4, title |-> "Median of Two Sorted Arrays", difficulty |-> "hard",
        topics |-> <<"Array">>],
       [leetcode_number |-> 200, title |-> "Number of Islands", difficulty |-> "unknown",
        topics |-> <<" Graph ", "  ">>] >>

HistorySubmissions ==
    << [problem_id |-> 1, solved_date |-> Today, attempts |-> 1],
       [problem_id |-> 2, solved_date |-> Today - 10, attempts |-> 1],
       [problem_id |-> 3, solved_date |-> Today - 20, attempts |-> 1] >>

\* Replies of the model to Prompt 1.
ValidDecisionReply == Reply(Text("json", Decision(JStr("Dynamic Programming"), JList(<<"Array">>))))
NumberReply == Reply(Text("json", JNumber))

\* Replies of the model to Prompt 2.
FullPlanReply ==
    Reply(Text("prose_json",
        [EmptyDict EXCEPT
            !.focus_topic = JStr("Dynamic Programming"),
            !.recommendations = JList(<<Rec(1, "Two Sum", 0, "")>>),
            !.rationale = JStr("Half the time on the new topic, the rest on review.")]))

Environments ==
    { Env(FALSE, CallFailed, TRUE, CallFailed),
      Env(TRUE, CallFailed, TRUE, CallFailed),
      Env(TRUE, ValidDecisionReply, TRUE, FullPlanReply),
      Env(TRUE, NumberReply, TRUE, FullPlanReply),
      Env(TRUE, ValidDecisionReply, FALSE, FullPlanReply),
      Env(TRUE, ValidDecisionReply, TRUE, NumberReply) }

PlanQueries ==
    { [date |-> None, time_minutes |-> Some(30), custom_instructions |-> None],
      [date |-> Some(Today), time_minutes |-> Some(30), custom_instructions |-> None],
      [date |-> Some(Today + 1), time_minutes |-> Some(30), custom_instructions |-> None],
      [date |-> None, time_minutes |-> Some(60), custom_instructions |-> None],
      [date |-> None, time_minutes |-> Some(30), custom_instructions |-> Some("graphs only")],
      [date |-> None, time_minutes |-> None, custom_instructions |-> None] }

ConfirmBodies ==
    { [date |-> None, time_minutes |-> 30, custom_instructions |-> None,
       decision |-> Decision(JStr("Graph"), JList(<<"Array">>))] }

PreviewTimes == {10, 30}

Fetches ==
    { [ok |-> FALSE],
      [ok |-> TRUE, items |-> <<>>],
      [ok |-> TRUE, items |->
          << [leetcode_number |-> 1, title |-> "Two Sum", difficulty |-> "easy",
              topics |-> <<"Array", "Hash Table">>, solved_date |-> Today],
             [leetcode_number |-> 70, title |-> "Climbing Stairs", difficulty |-> "easy",
              topics |-> <<>>, solved_date |-> Today - 5] >>] }

Init ==
    /\ now = Today * SecondsPerDay + 15 * 3600
    /\ problems = HistoryProblems
    /\ submissions = HistorySubmissions
    /\ daily_plans = <<>>
    /\ last_sync = None
    /\ request = [op |-> "none"]
    /\ response = Http(0, None)
    /\ trace = <<>>

Next ==
    \/ \E q \in PlanQueries, env \in Environments :
          get_daily_plan(q.date, q.time_minutes, q.custom_instructions, env)
    \/ \E body \in ConfirmBodies, env \in Environments : confirm_daily_plan(body, env)
    \/ \E t \in PreviewTimes, env \in Environments : preview_daily_plan_topics(t, None, env)
    \/ \E dry_run \in BOOLEAN, fetch \in Fetches : sync_leetcode_data(dry_run, fetch)

Spec == Init /\ [][Next]_vars

\* A stored plan has the key of a plan request.
KeyMatches(plan, req) ==
    /\ plan.plan_date = PlanDate(req.date)
    /\ Some(plan.available_time_minutes) = req.time_minutes
    /\ plan.custom_instructions = req.custom_instructions

\* The stored plans with the key of the request being served, oldest first.
StoredForRequest == {id \in 1..Len(daily_plans) : KeyMatches(daily_plans[id], request)}

\* A response body is the stored plan: same id and same content.
IsStoredPlan(body, plans) ==
    /\ body.id \in 1..Len(plans)
    /\ body.focus_topic = plans[body.id].focus_topic
    /\ body.recommendations = plans[body.id].problem_recommendations
    /\ body.ai_rationale = plans[body.id].ai_rationale

\* C6: a get_daily_plan that repeats the request of the get_daily_plan before it
\* returns the recommendations, focus topic and rationale the first call
\* returned, marked is_cached, with no model call and no new record.
C6_RepeatedGetIsIdempotent ==
    [][ (/\ request.op = "get_daily_plan"
         /\ response.status = 200
         /\ request' = request)
        => /\ response'.status = 200
           /\ response'.body.is_cached
           /\ response'.body.recommendations = response.body.recommendations
           /\ response'.body.focus_topic = response.body.focus_topic
           /\ response'.body.ai_rationale = response.body.ai_rationale
           /\ trace' = <<>>
           /\ daily_plans' = daily_plans ]_vars

\* C7 as stated: get_daily_plan is a cache hit exactly when a stored plan matches
\* the request on plan_date, available_time_minutes and custom_instructions, and
\* every request that matches no stored plan runs Phases 1-2, inserts exactly one
\* record and returns it with is_cached = false.
C7_HitIffMatchElseInsert ==
    [][ request'.op = "get_daily_plan" =>
          IF \E id \in 1..Len(daily_plans) : KeyMatches(daily_plans[id], request')
          THEN /\ response'.status = 200
               /\ response'.body.is_cached
               /\ daily_plans' = daily_plans
          ELSE /\ response'.status = 200
               /\ ~response'.body.is_cached
               /\ Len(trace') = 2
               /\ Len(daily_plans') = Len(daily_plans) + 1
               /\ KeyMatches(daily_plans'[Len(daily_plans')], request')
               /\ IsStoredPlan(response'.body, daily_plans') ]_vars

\* C7 as the code has it: get_daily_plan is a cache hit exactly when a stored plan
\* matches the request on all three of plan_date, available_time_minutes and
\* custom_instructions (absent instructions match only absent instructions), and
\* a hit returns a matching stored plan with no model call and no insert. On a
\* miss a request with no time budget is answered 400 with no model call and no
\* insert; a request with a time budget either fails with 500 and inserts
\* nothing, or runs Phases 1-2, appends exactly one record carrying the
\* request's key and returns it with is_cached = false.
C7_HitIffMatch ==
    [][ request'.op = "get_daily_plan" =>
          IF \E id \in 1..Len(daily_plans) : KeyMatches(daily_plans[id], request')
          THEN /\ response'.status = 200
               /\ response'.body.is_cached
               /\ IsStoredPlan(response'.body, daily_plans)
               /\ KeyMatches(daily_plans[response'.body.id], request')
               /\ trace' = <<>>
               /\ daily_plans' = daily_plans
          ELSE IF request'.time_minutes = None
          THEN /\ response'.status = 400
               /\ trace' = <<>>
               /\ daily_plans' = daily_plans
          ELSE \/ /\ response'.status = 500
                  /\ daily_plans' = daily_plans
               \/ /\ response'.status = 200
                  /\ ~response'.body.is_cached
                  /\ Len(trace') = 2
                  /\ Len(daily_plans') = Len(daily_plans) + 1
                  /\ \A id \in 1..Len(daily_plans) : daily_plans'[id] = daily_plans[id]
                  /\ KeyMatches(daily_plans'[Len(daily_plans')], request')
                  /\ response'.body.id = Len(daily_plans')
                  /\ IsStoredPlan(response'.body, daily_plans') ]_vars

\* A request with custom instructions missed although a plan for the same date and
\* time budget without instructions is stored, and its plan was generated and stored.
C7_Witness ==
    /\ request.op = "get_daily_plan"
    /\ request.custom_instructions # None
    /\ response.status = 200
    /\ ~response.body.is_cached
    /\ response.body.id = 2
    /\ Len(trace) = 2
    /\ daily_plans[1].plan_date = daily_plans[2].plan_date
    /\ daily_plans[1].available_time_minutes = daily_plans[2].available_time_minutes
    /\ daily_plans[1].custom_instructions = None

\* C8: once a plan is persisted for a key, every later get_daily_plan with that
\* key returns that plan: whatever requests came in between, a get_daily_plan
\* answers with the id and the content of the plan first persisted for its key.
C8_PlanForKeyNeverChanges ==
    (request.op = "get_daily_plan" /\ response.status = 200) =>
        /\ StoredForRequest # {}
        /\ \A id \in StoredForRequest : response.body.id <= id
        /\ IsStoredPlan(response.body, daily_plans)

(***************************************************************************)
(* Phase 1 alone: the topics preview over every store the import can       *)
(* build, against every kind of reply the model can give to Prompt 1.      *)
(***************************************************************************)
Phase1Replies ==
    { CallFailed,
      Reply(Text("json", Decision(JStr("Dynamic Programming"), JList(<<"Array">>)))),
      Reply(Text("prose_json", Decision(JStr("Graph"), JList(<<>>)))),
      Reply(Text("json", Decision(JNull, JList(<<"Array">>)))),
      Reply(Text("json", Decision(Absent, JList(<<"Array">>)))),
      Reply(Text("json", Decision(JStr("Graph"), JStr("Array")))),
      Reply(Text("json", Decision(JStr("Graph"), Absent))),
      Reply(Text("json", EmptyDict)),
      Reply(Text("prose", EmptyDict)),
      Reply(Text("broken", EmptyDict)),
      Reply(Text("json", JArray)),
      Reply(Text("json", JNumber)) }

PreviewEnvironments ==
    {Env(FALSE, CallFailed, TRUE, CallFailed)}
        \cup {Env(TRUE, reply, TRUE, CallFailed) : reply \in Phase1Replies}

InitPreview == InitStats

NextPreview ==
    \/ \E p \in ProblemPool, age \in Ages, a \in AttemptValues : ImportRow(p, Today - age, a)
    \/ \E t \in PreviewTimes, env \in PreviewEnvironments : preview_daily_plan_topics(t, None, env)

SpecPreview == InitPreview /\ [][NextPreview]_vars

\* The preview has answered with a decision after one model call.
PreviewDecided ==
    /\ request.op = "preview_daily_plan_topics"
    /\ response.status = 200
    /\ Len(trace) = 1

\* No topic of the statistics scores lower than the named one.
IsLowestScoring(stats, topic_name) ==
    \E k \in 1..Len(stats) :
        /\ stats[k].topic = topic_name
        /\ \A j \in 1..Len(stats) : stats[k].weighted_score <= stats[j].weighted_score

\* C9: when the Phase-1 model call fails, the decision returned has as new_topic
\* the topic with the lowest weighted score of the input statistics.
C9_FailedCallPicksLowest ==
    (PreviewDecided /\ trace[1] = CallFailed) =>
        \A stats \in {TopicStatsNow} :
            stats # <<>> => IsLowestScoring(stats, response.body.new_topic)

\* C10: when the parsed Phase-1 output is an object without a non-null new_topic,
\* or with a review_topics that is no list, the decision is the fallback: the
\* lowest-scoring topic as new_topic, the next two lowest-scoring as review_topics.
C10_InvalidOutputFallsBack ==
    PreviewDecided =>
        \A parsed \in {_parse_response(ContentText(trace[1]))} :
            (/\ parsed.t = "dict"
             /\ parsed.new_topic.t # "str" \/ parsed.review_topics.t # "list")
            => \A stats \in {TopicStatsNow} :
                  stats # <<>> =>
                      /\ response.body.new_topic = FallbackDecision(stats).new_topic.v
                      /\ response.body.review_topics = FallbackDecision(stats).review_topics.v

(***************************************************************************)
(* Complete plans.                                                         *)
(***************************************************************************)
\* The last request was a plan request answered with success.
PlanServed ==
    /\ request.op \in {"get_daily_plan", "confirm_daily_plan"}
    /\ response.status = 200

\* C11: every successful response of get_daily_plan or confirm carries at least
\* one recommendation, a non-empty focus topic and a non-empty rationale, and no
\* stored plan has an empty recommendation list or an empty rationale.
C11_OnlyCompletePlans ==
    /\ PlanServed =>
          /\ response.body.recommendations # <<>>
          /\ response.body.focus_topic # ""
          /\ response.body.ai_rationale # ""
    /\ \A id \in 1..Len(daily_plans) :
          /\ daily_plans[id].problem_recommendations # <<>>
          /\ daily_plans[id].ai_rationale # ""

(***************************************************************************)
(* Phase 2 alone: generate_daily_plan_from_problems on every topic         *)
(* decision and every kind of reply the model can give to Prompt 2.        *)
(***************************************************************************)
PlanObject(focus_topic, recommendations, rationale) ==
    [EmptyDict EXCEPT !.focus_topic = focus_topic, !.recommendations = recommendations,
                      !.rationale = rationale]

Phase2Replies ==
    { CallFailed,
      FullPlanReply,
      Reply(Text("json", PlanObject(JStr("Graph"), JList(<<Rec(200, "Number of Islands", 20,
          "https://leetcode.com/problems/number-of-islands/description/")>>), JStr("Review.")))),
      Reply(Text("json", PlanObject(Absent, JList(<<Rec(1, "", 0, "")>>), JStr("Review.")))),
      Reply(Text("json", PlanObject(JStr("Graph"), JStr("none"), Absent))),
      Reply(Text("json", PlanObject(JNull, JList(<<JStr("Two Sum")>>), JNull))),
      Reply(Text("json", EmptyDict)),
      Reply(Text("prose", EmptyDict)),
      Reply(Text("broken", EmptyDict)),
      Reply(Text("json", JArray)),
      Reply(Text("json", JNumber)),
      Reply(Text("json", JNull)),
      Reply(Text("prose_json", EmptyDict)) }

TopicDecisions ==
    { Decision(new_topic, review_topics) :
        new_topic \in {JStr("Graph"), JStr("Array"), JStr(""), JNull},
        review_topics \in {JList(<<>>), JList(<<"Array">>)} }

InitPhase2 ==
    /\ now = Today * SecondsPerDay + 15 * 3600
    /\ request \in [op : {"generate_daily_plan_from_problems"},
                    topic_decision : TopicDecisions, reply : Phase2Replies]
    /\ response = Http(0, None)
    /\ EmptyStore

\* One call of ClaudeClient.generate_daily_plan_from_problems.
GeneratePlanFromProblems ==
    /\ request.op = "generate_daily_plan_from_problems"
    /\ trace = <<>>
    /\ trace' = <<request.reply>>
    /\ response' = generate_daily_plan_from_problems(request.topic_decision, request.reply)
    /\ UNCHANGED <<now, problems, submissions, daily_plans, last_sync, request>>

NextPhase2 == GeneratePlanFromProblems

SpecPhase2 == InitPhase2 /\ [][NextPhase2]_vars

\* The Phase-2 call failed totally: transport error, or a text that holds no JSON.
Phase2FailedTotally ==
    /\ trace # <<>>
    /\ \/ trace[1] = CallFailed
       \/ trace[1].ok /\ trace[1].text.shape \in {"prose", "broken"}

\* C12: when the Phase-2 model call fails totally, plan construction does not
\* abort, and the plan has no recommendation and a generic, non-empty rationale.
C12_TotalFailureGivesGenericPlan ==
    Phase2FailedTotally =>
        /\ ~response.raised
        /\ OrDefault(response.value.recommendations, JList(<<>>)).v = <<>>
        /\ OrDefault(response.value.rationale, JStr("")).v # ""

(***************************************************************************)
(* Sync alone: the LeetCode client's result handed to POST /api/sync,      *)
(* while the clock advances in steps of 30 seconds.                        *)
(***************************************************************************)
MaxTicks == 3

\* solved_date.year, day 0 of the calendar being 1 January 2025
YearOf(solved_date) == IF solved_date >= 0 THEN 2025 ELSE 2024

\* "Only include 2025 data"
RECURSIVE Only2025(_)
Only2025(results) ==
    IF results = <<>> THEN <<>>
    ELSE IF YearOf(Head(results).solved_date) # 2025 THEN Only2025(Tail(results))
    ELSE <<Head(results)>> \o Only2025(Tail(results))

\* "De-duplicate by (leetcode_number, solved_date)": the first of each key is kept.
RECURSIVE Deduplicate(_, _)
Deduplicate(results, seen) ==
    IF results = <<>> THEN <<>>
    ELSE LET item == Head(results)
             key == <<item.leetcode_number, item.solved_date>>
         IN  IF key \in seen THEN Deduplicate(Tail(results), seen)
             ELSE <<item>> \o Deduplicate(Tail(results), seen \cup {key})

\* results.append({...}): the difficulty lower-cased, the tags or ["Unknown"]
ResultItems(accepted) ==
    [k \in 1..Len(accepted) |->
        [accepted[k] EXCEPT !.difficulty = Lower(@),
                            !.topics = IF @ = <<>> THEN <<"Unknown">> ELSE @]]

\* The same loop without the "seen" test.
MutFetchKeepsDuplicates(raw) ==
    IF ~raw.ok THEN [ok |-> FALSE]
    ELSE [ok |-> TRUE, items |-> ResultItems(Only2025(raw.results))]

\* LeetCodeClient.fetch_recent_submissions over what LeetCode answers: the call
\* raises, or the accepted submissions are filtered and de-duplicated.
fetch_recent_submissions(raw) ==
    IF ~raw.ok THEN [ok |-> FALSE]
    ELSE [ok |-> TRUE, items |-> Deduplicate(ResultItems(Only2025(raw.results)), {})]

Accepted(leetcode_number, title, difficulty, topics, solved_date) ==
    [leetcode_number |-> leetcode_number, title |-> title, difficulty |-> difficulty,
     topics |-> topics, solved_date |-> solved_date]

\* What LeetCode can answer: an error, nothing, a known and a new problem with a
\* submission of last year, a known problem under a changed title and
\* difficulty, and a problem accepted twice on one day and once on the next.
RawBatches ==
    { [ok |-> FALSE],
      [ok |-> TRUE, results |-> <<>>],
      [ok |-> TRUE, results |->
          << Accepted(1, "Two Sum", "Easy", <<"Array", "Hash Table">>, Today),
             Accepted(70, "Climbing Stairs", "Easy", <<>>, Today - 5),
             Accepted(4, "Median of Two Sorted Arrays", "Hard", <<"Array">>, 0 - 1) >>],
      [ok |-> TRUE, results |->
          << Accepted(1, "Two Sum (Updated)", "Medium", <<"Array">>, Today - 1) >>],
      [ok |-> TRUE, results |->
          << Accepted(70, "Climbing Stairs", "Easy", <<>>, Today - 5),
             Accepted(70, "Climbing Stairs", "Easy", <<>>, Today - 5),
             Accepted(70, "Climbing Stairs", "Easy", <<>>, Today - 4) >>] }

SyncStartInstant == Today * SecondsPerDay + 15 * 3600

InitSync ==
    /\ now = SyncStartInstant
    /\ problems = HistoryProblems
    /\ submissions = HistorySubmissions
    /\ daily_plans = <<>>
    /\ last_sync = None
    /\ request = [op |-> "none"]
    /\ response = Http(0, None)
    /\ trace = <<>>

\* The clock moves on by 30 seconds.
Tick ==
    /\ now < SyncStartInstant + MaxTicks * 30
    /\ now' = now + 30
    /\ UNCHANGED <<problems, submissions, daily_plans, last_sync, request, response, trace>>

\* POST /api/sync with the client in it: "client = LeetCodeClient(); fetched =
\* await client.fetch_recent_submissions(...)" runs within the request, on what
\* LeetCode answers to it.
SyncWithClient(dry_run, raw) ==
    /\ \E fetch \in {fetch_recent_submissions(raw)} : sync_leetcode_data(dry_run, fetch)

NextSync ==
    \/ \E dry_run \in BOOLEAN, raw \in RawBatches : SyncWithClient(dry_run, raw)
    \/ Tick

SpecSync == InitSync /\ [][NextSync]_vars

\* A step that serves a sync request (the clock stands still meanwhile).
SyncStep == request'.op = "sync_leetcode_data" /\ now' = now

\* C13: a sync request arriving less than 60 seconds after the last completed
\* non-dry-run sync is rejected with status 429 and writes nothing.
C13_ThrottledWithin60Seconds ==
    [][ (/\ SyncStep
         /\ last_sync # None
         /\ now - last_sync[1] < 60)
        => /\ response'.status = 429
           /\ UNCHANGED <<problems, submissions, last_sync>> ]_vars

(***************************************************************************)
(* analytics._compute_streaks on the solved-dates of up to MaxDates        *)
(* submissions.                                                            *)
(***************************************************************************)
MaxDates == 3

Max(a, b) == IF a >= b THEN a ELSE b

\* sorted(dates_set)
RECURSIVE SortedDates(_)
SortedDates(dates_set) ==
    IF dates_set = {} THEN <<>>
    ELSE LET first == CHOOSE d \in dates_set : \A e \in dates_set : d <= e
         IN  <<first>> \o SortedDates(dates_set \ {first})

\* The loop "for i in range(1, len(sorted_dates))" from index i on, and the
\* "longest = max(longest, current)" after it.
RECURSIVE LongestFrom(_, _, _, _)
LongestFrom(sorted_dates, i, current, longest) ==
    IF i > Len(sorted_dates) THEN Max(longest, current)
    ELSE IF sorted_dates[i] - sorted_dates[i - 1] = 1
         THEN LongestFrom(sorted_dates, i + 1, current + 1, longest)
         ELSE LongestFrom(sorted_dates, i + 1, 1, Max(longest, current))

\* The loop "while d in dates_set: streak += 1; d = d - timedelta(days=1)"
RECURSIVE StreakBack(_, _, _)
StreakBack(dates_set, d, streak) ==
    IF d \in dates_set THEN StreakBack(dates_set, d - 1, streak + 1) ELSE streak

\* The same count started at yesterday when today is absent.
MutComputeStreaksFromYesterday(dates_set, instant) ==
    IF dates_set = {} THEN [current |-> 0, longest |-> 0]
    ELSE [current |-> IF TodayOf(instant) \in dates_set
                      THEN StreakBack(dates_set, TodayOf(instant), 0)
                      ELSE StreakBack(dates_set, TodayOf(instant) - 1, 0),
          longest |-> LongestFrom(SortedDates(dates_set), 2, 1, 1)]

\* The longest streak as the number of breaks between sorted dates plus one.
MutComputeStreaksCountsRuns(dates_set, instant) ==
    IF dates_set = {} THEN [current |-> 0, longest |-> 0]
    ELSE [current |-> StreakBack(dates_set, TodayOf(instant), 0),
          longest |-> Cardinality({d \in dates_set : d - 1 \notin dates_set})]

\* _compute_streaks without its "if not dates_set" guard.
MutComputeStreaksNoEmptyGuard(dates_set, instant) ==
    [current |-> StreakBack(dates_set, TodayOf(instant), 0),
     longest |-> LongestFrom(SortedDates(dates_set), 2, 1, 1)]

\* _compute_streaks(dates_set) -> (streak, longest), with datetime.now() = instant
_compute_streaks(dates_set, instant) ==
    IF dates_set = {} THEN [current |-> 0, longest |-> 0]
    ELSE [current |-> StreakBack(dates_set, TodayOf(instant), 0),
          longest |-> LongestFrom(SortedDates(dates_set), 2, 1, 1)]

\* dates_set.add(submission.solved_date) over the rows
DatesSet(solved_dates) == {solved_dates[k] : k \in 1..Len(solved_dates)}

StreakDays == {Today, Today - 1, Today - 2, Today - 5}

RECURSIVE SeqsUpTo(_, _)
SeqsUpTo(S, n) ==
    IF n = 0 THEN {<<>>}
    ELSE SeqsUpTo(S, n - 1) \cup {Append(q, x) : q \in SeqsUpTo(S, n - 1), x \in S}

InitStreaks ==
    /\ now = Today * SecondsPerDay + 15 * 3600
    /\ request \in [op : {"_compute_streaks"}, solved_dates : SeqsUpTo(StreakDays, MaxDates)]
    /\ response = Http(0, None)
    /\ EmptyStore

ComputeStreaks ==
    /\ request.op = "_compute_streaks"
    /\ response.status = 0
    /\ response' = Http(200, _compute_streaks(DatesSet(request.solved_dates), now))
    /\ UNCHANGED <<now, problems, submissions, daily_plans, last_sync, request, trace>>

NextStreaks == ComputeStreaks

SpecStreaks == InitStreaks /\ [][NextStreaks]_vars

StreaksComputed == request.op = "_compute_streaks" /\ response.status = 200

\* The days first .. first + n - 1 are all in the set.
IsRun(dates_set, first, n) == \A i \in 0..(n - 1) : first + i \in dates_set

\* C14: the longest streak is the length of the longest run of consecutive
\* calendar days in the set of solved-dates: 0 for no dates, at least 1
\* otherwise, the same however often a date occurs, and 1 for {today, today-5}.
C14_LongestStreak ==
    StreaksComputed =>
        \A dates_set \in {DatesSet(request.solved_dates)} :
            /\ \A n \in 1..(MaxDates + 1) :
                  (\E first \in dates_set : IsRun(dates_set, first, n))
                      <=> n <= response.body.longest
            /\ dates_set = {} <=> response.body.longest = 0
            /\ dates_set = {Today, Today - 5} => response.body.longest = 1

\* Two solved-dates, one of them twice, that do not follow each other.
C14_Witness ==
    /\ StreaksComputed
    /\ request.solved_dates = <<Today, Today - 5, Today>>
    /\ response.body.longest = 1

\* C15: the current streak is the number of consecutive days, counted backward
\* from today, that are all solved-dates: 0 when today is none, even when a run
\* ended yesterday, and 3 for exactly today, yesterday and the day before.
C15_CurrentStreak ==
    StreaksComputed =>
        \A dates_set \in {DatesSet(request.solved_dates)} :
            /\ \A n \in 1..(MaxDates + 1) :
                  (\A i \in 0..(n - 1) : Today - i \in dates_set)
                      <=> n <= response.body.current
            /\ Today \notin dates_set => response.body.current = 0
            /\ dates_set = {Today, Today - 1, Today - 2} => response.body.current = 3

\* A run that ended yesterday counts for nothing today.
C15_Witness ==
    /\ StreaksComputed
    /\ DatesSet(request.solved_dates) = {Today - 1, Today - 2}
    /\ response.body.current = 0

(***************************************************************************)
(* analytics.calculate_overall_stats, read by GET /api/stats.              *)
(***************************************************************************)
\* total_attempts += (submission.attempts or 1)
RECURSIVE TotalAttempts(_, _)
TotalAttempts(pairs, n) ==
    IF n = 0 THEN 0
    ELSE TotalAttempts(pairs, n - 1)
         + (IF pairs[n].submission.attempts = 0 THEN 1 ELSE pairs[n].submission.attempts)

\* diff_counts[difficulty] after the loop
DiffCount(pairs, difficulty) ==
    Cardinality({i \in 1..Len(pairs) :
                    NormalizeDifficulty(pairs[i].problem.difficulty) = difficulty})

\* unique_topics after the loop
UniqueTopics(pairs) == {TopicOf(pairs, occ) : occ \in TagOccurrences(pairs)}

\* round(total_attempts / total_submissions, 2) if total_submissions else 0.0, in
\* hundredths. Up to four submissions no quotient lies halfway between two hundredths.
AverageAttempts(total_attempts, total_submissions) ==
    IF total_submissions = 0 THEN 0
    ELSE (200 * total_attempts + total_submissions) \div (2 * total_submissions)

\* total_problems_solved as the number of distinct problems solved.
MutOverallCountsDistinctProblems(subs, probs, instant) ==
    LET pairs == JoinedPairs(subs, probs)
        streaks == _compute_streaks(DatesSet([i \in 1..Len(subs) |-> subs[i].solved_date]),
                                    instant)
    IN  [total_problems_solved |-> Cardinality({subs[i].problem_id : i \in 1..Len(subs)}),
         total_attempts |-> TotalAttempts(pairs, Len(pairs)),
         easy_solved |-> DiffCount(pairs, "easy"),
         medium_solved |-> DiffCount(pairs, "medium"),
         hard_solved |-> DiffCount(pairs, "hard"),
         unique_topics_practiced |-> Cardinality(UniqueTopics(pairs)),
         current_streak_days |-> streaks.current,
         longest_streak_days |-> streaks.longest,
         average_attempts_per_problem |->
             AverageAttempts(TotalAttempts(pairs, Len(pairs)), Len(pairs))]

calculate_overall_stats(subs, probs, instant) ==
    LET pairs == JoinedPairs(subs, probs)
        streaks == _compute_streaks(DatesSet([i \in 1..Len(subs) |-> subs[i].solved_date]),
                                    instant)
    IN  [total_problems_solved |-> Len(pairs),
         total_attempts |-> TotalAttempts(pairs, Len(pairs)),
         easy_solved |-> DiffCount(pairs, "easy"),
         medium_solved |-> DiffCount(pairs, "medium"),
         hard_solved |-> DiffCount(pairs, "hard"),
         unique_topics_practiced |-> Cardinality(UniqueTopics(pairs)),
         current_streak_days |-> streaks.current,
         longest_streak_days |-> streaks.longest,
         average_attempts_per_problem |->
             AverageAttempts(TotalAttempts(pairs, Len(pairs)), Len(pairs))]

\* GET /api/stats
get_overall_stats_endpoint ==
    /\ request' = [op |-> "get_overall_stats"]
    /\ response' = calculate_overall_stats(submissions, problems, now)
    /\ UNCHANGED <<now, problems, submissions, daily_plans, last_sync, trace>>

\* Rows of the import file: difficulties in upper and lower case and an unknown
\* one, and attempt counts a file can hold, 0 among them.
OverallPool ==
    { [leetcode_number |-> 1, title |-> "Two Sum", difficulty |-> "Easy",
       topics |-> <<"Array", "Hash Table">>],
      [leetcode_number |-> 4, title |-> "Median of Two Sorted Arrays", difficulty |-> "hard",
       topics |-> <<"Array">>],
      [leetcode_number |-> 200, title |-> "Number of Islands", difficulty |-> "unknown",
       topics |-> <<" Graph ", "  ">>] }

OverallAges == {0, 1}

OverallAttempts == {0, 3}

NextOverall ==
    \/ \E p \in OverallPool, age \in OverallAges, a \in OverallAttempts :
          ImportRow(p, Today - age, a)
    \/ get_overall_stats_endpoint
    \/ get_topic_stats_endpoint

SpecOverall == InitStats /\ [][NextOverall]_vars

OverallAnswered == request.op = "get_overall_stats"

\* The submissions of problems whose stored difficulty reads as the given one;
\* every other spelling, an unknown or an empty one, reads as medium.
SolvedAs(difficulty) ==
    {i \in 1..Len(submissions) :
        LET raw == problems[submissions[i].problem_id].difficulty
            reads == CASE raw \in {"easy", "Easy"} -> "easy"
                       [] raw \in {"hard", "Hard"} -> "hard"
                       [] OTHER -> "medium"
        IN  reads = difficulty}

\* C16: total_problems_solved is the number of submissions, repeat solves of a
\* problem counted one by one; total_attempts is the sum of the attempt counts,
\* a missing (zero) count taken as 1; easy, medium and hard_solved count the
\* submissions by normalized difficulty and add up to total_problems_solved.
C16_OverallCounts ==
    OverallAnswered =>
        /\ response.total_problems_solved = Len(submissions)
        /\ response.total_attempts =
               SumSeq([i \in 1..Len(submissions) |->
                          IF submissions[i].attempts = 0 THEN 1 ELSE submissions[i].attempts])
        /\ response.easy_solved = Cardinality(SolvedAs("easy"))
        /\ response.medium_solved = Cardinality(SolvedAs("medium"))
        /\ response.hard_solved = Cardinality(SolvedAs("hard"))
        /\ response.easy_solved + response.medium_solved + response.hard_solved
               = response.total_problems_solved

\* Two Sum, stored as "Easy", solved twice, once with no attempt count.
C16_Witness ==
    /\ OverallAnswered
    /\ Len(submissions) = 2
    /\ submissions[1].problem_id = submissions[2].problem_id
    /\ submissions[1].attempts = 0
    /\ submissions[2].attempts = 3
    /\ response.total_problems_solved = 2
    /\ response.total_attempts = 4
    /\ response.easy_solved = 2

\* C17: with no submission the overall statistics are all 0, both streaks and the
\* average included, and the topic statistics are the empty list.
C17_EmptyStoreGivesZeros ==
    submissions = <<>> =>
        /\ OverallAnswered =>
              response = [total_problems_solved |-> 0, total_attempts |-> 0,
                          easy_solved |-> 0, medium_solved |-> 0, hard_solved |-> 0,
                          unique_topics_practiced |-> 0, current_streak_days |-> 0,
                          longest_streak_days |-> 0, average_attempts_per_problem |-> 0]
        /\ request.op = "get_topic_stats" => response = <<>>

C17_Witness ==
    /\ OverallAnswered
    /\ submissions = <<>>
    /\ response.average_attempts_per_problem = 0
    /\ response.longest_streak_days = 0

(***************************************************************************)
(* What a sync leaves in the store.                                        *)
(***************************************************************************)
\* The last request was a sync that fetched records and completed.
SyncCompleted ==
    /\ request.op = "sync_leetcode_data"
    /\ response.status = 200
    /\ trace # <<>>

\* C18: after a non-dry-run sync, for every fetched record exactly one Problem
\* holds its external number, and that Problem's title, difficulty and topics are
\* the fetched ones, also when the number was stored before with other values.
C18_ProblemUpserted ==
    (SyncCompleted /\ ~request.dry_run) =>
        \A k \in 1..Len(trace[1].items) :
            \A item \in {trace[1].items[k]} :
                /\ Cardinality({i \in 1..Len(problems) :
                                   problems[i].leetcode_number = item.leetcode_number}) = 1
                /\ \A i \in 1..Len(problems) :
                      problems[i].leetcode_number = item.leetcode_number =>
                          /\ problems[i].title = item.title
                          /\ problems[i].difficulty = item.difficulty
                          /\ problems[i].topics = item.topics

NoDuplicateSubmissions ==
    \A i, j \in 1..Len(submissions) :
        (/\ submissions[i].problem_id = submissions[j].problem_id
         /\ submissions[i].solved_date = submissions[j].solved_date) => i = j

\* C19: from a store without two Submissions of one (problem, solved_date), syncs
\* run one at a time never create two; and a non-dry-run sync that follows a
\* completed one over the same fetched records reports 0 new problems and 0 new
\* submissions and leaves problems and submissions as they are.
C19_NoDuplicateSubmissions ==
    /\ []NoDuplicateSubmissions
    /\ [][ (/\ SyncCompleted
            /\ ~request.dry_run
            /\ SyncStep
            /\ request' = request
            /\ trace' = trace)
           => /\ response'.status = 200
              /\ response'.body.new_problems = 0
              /\ response'.body.new_submissions = 0
              /\ problems' = problems
              /\ submissions' = submissions ]_vars

\* The batch with Climbing Stairs on two days has been synced a second time.
C19_Witness ==
    /\ SyncCompleted
    /\ ~request.dry_run
    /\ Len(trace[1].items) = 2
    /\ trace[1].items[1].leetcode_number = 70
    /\ response.body.new_problems = 0
    /\ response.body.new_submissions = 0
    /\ Len(submissions) > Len(HistorySubmissions)

\* C20: a dry-run sync adds no Problem and no Submission and leaves the last-sync
\* time as it is, so the limiter sees a following sync as it would have without it.
C20_DryRunChangesNothing ==
    [][ (SyncStep /\ request'.dry_run)
        => /\ problems' = problems
           /\ submissions' = submissions
           /\ last_sync' = last_sync
           /\ LimiterRaises(last_sync', now') = LimiterRaises(last_sync, now) ]_vars

\* A dry run that reported a new problem and a new submission on the untouched store.
C20_Witness ==
    /\ SyncCompleted
    /\ request.dry_run
    /\ response.body.new_problems = 1
    /\ response.body.new_submissions >= 1
    /\ problems = HistoryProblems
    /\ submissions = HistorySubmissions
    /\ last_sync = None

\* C21: the counts a dry-run sync reports are the counts a non-dry-run sync
\* reports for the same fetched records on the same store (the store a dry run
\* leaves is the store it found).
C21_DryRunPreviewsRealRun ==
    (SyncCompleted /\ request.dry_run) =>
        \A real \in {SyncLoop(SyncStart(problems, submissions), trace[1].items, 1, FALSE)} :
            /\ response.body.new_problems = real.new_problems
            /\ response.body.new_submissions = real.new_submissions

(***************************************************************************)
(* The plan endpoints at the edges of their inputs: time budgets around    *)
(* 15 and 480 minutes, and a model that recommends what it was not given.  *)
(***************************************************************************)
InventedPlanReply ==
    Reply(Text("json", PlanObject(JStr("Dynamic Programming"),
        JList(<<Rec(9999, "Imaginary Problem", 30,
                    "https://leetcode.com/problems/imaginary-problem/description/")>>),
        JStr("A problem the candidate list does not hold."))))

BoundaryTimes == {14, 15, 480, 481}

BoundaryEnvironments ==
    { Env(TRUE, ValidDecisionReply, TRUE, FullPlanReply),
      Env(TRUE, ValidDecisionReply, TRUE, InventedPlanReply) }

NextBoundary ==
    \/ \E t \in BoundaryTimes, env \in BoundaryEnvironments :
          get_daily_plan(None, Some(t), None, env)
    \/ \E t \in BoundaryTimes, env \in BoundaryEnvironments :
          preview_daily_plan_topics(t, None, env)

SpecBoundary == Init /\ [][NextBoundary]_vars

\* The time budget of the plan or preview request being served lies outside 15..480.
BudgetOutOfRange ==
    \/ /\ request.op = "get_daily_plan"
       /\ request.time_minutes # None
       /\ request.time_minutes[1] \notin 15..480
    \/ /\ request.op = "preview_daily_plan_topics"
       /\ request.time_minutes \notin 15..480

\* C22: a plan or preview request with a time budget outside 15..480 minutes is
\* rejected without a model call, and no stored DailyPlan has an
\* available_time_minutes outside 15..480.
C22_BudgetRejectedAtBoundary ==
    /\ BudgetOutOfRange => (response.status # 200 /\ trace = <<>>)
    /\ \A id \in 1..Len(daily_plans) : daily_plans[id].available_time_minutes \in 15..480

\* The external numbers of the problems solved within the last 30 days: every
\* candidate pool, whatever the decided topics, lies within them.
RecentlySolvedNumbers ==
    {problems[submissions[i].problem_id].leetcode_number :
        i \in {j \in 1..Len(submissions) : TodayOf(now) - submissions[j].solved_date <= 30}}

\* C25: every recommendation of a stored plan names a problem of the candidate
\* pool handed to Phase 2, whatever the model returned.
C25_NoInventedProblem ==
    \A id \in 1..Len(daily_plans) :
        \A k \in 1..Len(daily_plans[id].problem_recommendations) :
            daily_plans[id].problem_recommendations[k].leetcode_number
                \in RecentlySolvedNumbers

(***************************************************************************)
(* get_daily_plan and confirm over the plan table, request by request.     *)
(***************************************************************************)
\* Some stored plan has the key of the request a step serves.
KeyStored(plans, req) == \E id \in 1..Len(plans) : KeyMatches(plans[id], req)

\* C23: a get_daily_plan with no time budget whose key no stored plan has is
\* answered 400, with no model call and no new DailyPlan.
C23_NoBudgetNoPlan ==
    [][ (/\ request'.op = "get_daily_plan"
         /\ request'.time_minutes = None
         /\ ~KeyStored(daily_plans, request'))
        => /\ response'.status = 400
           /\ trace' = <<>>
           /\ daily_plans' = daily_plans ]_vars

C23_Witness ==
    /\ request.op = "get_daily_plan"
    /\ request.time_minutes = None
    /\ response.status = 400
    /\ daily_plans # <<>>

\* C26: in a get_daily_plan with a time budget whose key no stored plan has, the
\* second model call is made only after the first, a DailyPlan is added only when
\* both model calls were made and the answer is 200, and a request that ends
\* before the second model call (the client cannot be built, Phase 1 or the
\* candidate fetch raises) or in Phase 2 is answered 500 and adds nothing.
C26_PersistOnlyAfterAllSteps ==
    [][ (/\ request'.op = "get_daily_plan"
         /\ request'.time_minutes # None
         /\ ~KeyStored(daily_plans, request'))
        => /\ response'.status \in {200, 500}
           /\ Len(trace') <= 2
           /\ Len(trace') < 2 => response'.status = 500
           /\ response'.status = 500 => daily_plans' = daily_plans
           /\ response'.status = 200 =>
                 /\ Len(trace') = 2
                 /\ Len(daily_plans') = Len(daily_plans) + 1
                 /\ KeyMatches(daily_plans'[Len(daily_plans')], request') ]_vars

\* The candidate fetch raised after a Phase 1 that succeeded: 500, nothing stored.
C26_Witness ==
    /\ request.op = "get_daily_plan"
    /\ response.status = 500
    /\ trace = <<ValidDecisionReply>>

\* C27: at most one DailyPlan per key (plan_date, available_time_minutes,
\* custom_instructions).
C27_OnePlanPerKey ==
    \A i, j \in 1..Len(daily_plans) :
        (/\ daily_plans[i].plan_date = daily_plans[j].plan_date
         /\ daily_plans[i].available_time_minutes = daily_plans[j].available_time_minutes
         /\ daily_plans[i].custom_instructions = daily_plans[j].custom_instructions)
        => i = j

\* The plan get_daily_plan persists for a request when both model calls fail.
DegradedPlan(req) ==
    LET flow == TwoStepFlow(calculate_topic_stats(submissions, problems, now),
                            Env(TRUE, CallFailed, TRUE, CallFailed))
    IN  DailyPlan(PlanDate(req.date), req.time_minutes[1], req.custom_instructions,
                  OrDefault(flow.value.recommendations, JList(<<>>)).v,
                  OrDefault(flow.value.focus_topic, JStr("General Review")).v,
                  OrDefault(flow.value.rationale, JStr("")).v)

\* C28: a cache-miss get_daily_plan whose two model calls fail persists the
\* degraded plan (no recommendations), and every later get_daily_plan with that
\* key returns that stored degraded plan, is_cached, with no model call and no
\* insert.
C28_DegradedPlanStaysServed ==
    [][ (request'.op = "get_daily_plan" /\ request'.time_minutes # None) =>
          \A degraded \in {DegradedPlan(request')} :
              /\ (~KeyStored(daily_plans, request') /\ trace' = <<CallFailed, CallFailed>>)
                    => /\ degraded.problem_recommendations = <<>>
                       /\ daily_plans' = Append(daily_plans, degraded)
                       /\ response'.status = 200
              /\ (\E id \in 1..Len(daily_plans) : daily_plans[id] = degraded)
                    => /\ response'.status = 200
                       /\ response'.body.is_cached
                       /\ daily_plans[response'.body.id] = degraded
                       /\ trace' = <<>>
                       /\ daily_plans' = daily_plans ]_vars

(***************************************************************************)
(* Both model-facing functions on every kind of reply.                     *)
(***************************************************************************)
\* C24: whatever text the model returns, generate_daily_plan_from_problems and
\* generate_topics_decision return a structured result and do not raise.
C24_NeverRaisesOnModelText ==
    trace # <<>> =>
        /\ ~response.raised
        /\ ~generate_topics_decision(trace[1]).raised

(***************************************************************************)
(* Two sync requests in flight at once.                                    *)
(*                                                                         *)
(* sync_leetcode_data is a coroutine on uvicorn's one event loop. Its only *)
(* await is the LeetCode fetch: two requests interleave there, and what    *)
(* follows the fetch (the reads, the loop, the commit) is synchronous code *)
(* that runs to its end before the loop serves anything else. request,     *)
(* response and trace hold one entry per request; trace[p] is the fetch    *)
(* result request p received.                                              *)
(***************************************************************************)
Requests == {1, 2}

Other(p) == 3 - p

InitOverlap ==
    /\ now = SyncStartInstant
    /\ problems = HistoryProblems
    /\ submissions = HistorySubmissions
    /\ daily_plans = <<>>
    /\ last_sync = None
    /\ request = << [op |-> "sync_leetcode_data", pc |-> "idle", dry_run |-> FALSE,
                     concurrent |-> FALSE, fault |-> 0],
                    [op |-> "sync_leetcode_data", pc |-> "idle", dry_run |-> FALSE,
                     concurrent |-> FALSE, fault |-> 0] >>
    /\ response = <<Http(0, None), Http(0, None)>>
    /\ trace = <<None, None>>

\* A session whose flushed rows outlive it, as under autocommit.
MutCloseSessionKeepsFlushed(acc) ==
    /\ problems' = acc.problems
    /\ submissions' = acc.flushed
    /\ UNCHANGED last_sync

\* A database error leaves the handler as an unhandled exception; get_db's
\* "finally: db.close()" then ends the session, and with it the transaction: rows
\* flushed but not committed are gone.
CloseSession(acc) == UNCHANGED <<problems, submissions, last_sync>>

\* The handler up to "await client.fetch_recent_submissions(...)": the limiter,
\* then the coroutine is suspended. concurrent notes that the other request was
\* suspended in its fetch when this one arrived.
SyncAwaitFetch(p, dry_run) ==
    /\ request[p].pc = "idle"
    /\ IF RateLimited(last_sync, now)
       THEN /\ request' = [request EXCEPT ![p].pc = "done", ![p].dry_run = dry_run]
            /\ response' = [response EXCEPT ![p] = Http(429, None)]
       ELSE /\ request' = [request EXCEPT ![p].pc = "fetching", ![p].dry_run = dry_run,
                               ![p].concurrent = (request[Other(p)].pc = "fetching")]
            /\ UNCHANGED response
    /\ UNCHANGED <<now, problems, submissions, daily_plans, last_sync, trace>>

\* The database statements of a handler over items: the read of the problems, one
\* or two per item in the loop, the commit. fault names the one that raises, 0 none.
FaultPoints(dry_run, fetch) ==
    IF dry_run \/ ~fetch.ok THEN {0}
    ELSE IF fetch.items = <<>> THEN {0}
    ELSE 0..(Len(fetch.items) + 1)

\* The handler from the return of the fetch to its end. With fault = k the
\* database raises while item k is written (k = Len(items) + 1: at the commit).
SyncAfterFetch(p, fetch, fault) ==
    LET dry_run == request[p].dry_run
    IN  /\ request[p].pc = "fetching"
        /\ fault \in FaultPoints(dry_run, fetch)
        /\ request' = [request EXCEPT ![p].pc = "done", ![p].fault = fault]
        /\ trace' = [trace EXCEPT ![p] = Some(fetch)]
        /\ IF ~fetch.ok
           THEN /\ response' = [response EXCEPT ![p] = Http(502, None)]
                /\ UNCHANGED <<problems, submissions, last_sync>>
           ELSE IF fetch.items = <<>>
           THEN /\ response' = [response EXCEPT ![p] =
                       Http(200, SyncResponse(0, 0, "No new submissions since last sync."))]
                /\ UNCHANGED <<problems, submissions, last_sync>>
           ELSE IF fault # 0
           THEN \E acc \in {SyncLoop(SyncStart(problems, submissions),
                                     SubSeq(fetch.items, 1, fault - 1), 1, dry_run)} :
                   /\ response' = [response EXCEPT ![p] = Http(500, None)]
                   /\ CloseSession(acc)
           ELSE \E done \in {SyncLoop(SyncStart(problems, submissions), fetch.items, 1,
                                      dry_run)} :
                   /\ response' = [response EXCEPT ![p] =
                          Http(200, SyncResponse(done.new_problems, done.new_submissions,
                               IF dry_run THEN "dry-run: True. Added ..." ELSE "Added ..."))]
                   /\ CommitSync(done, dry_run)
        /\ UNCHANGED <<now, daily_plans>>

\* The fetch of request p returns what the client makes of LeetCode's answer raw,
\* and the handler runs on from there.
SyncResumes(p, raw) ==
    /\ \E fetch \in {fetch_recent_submissions(raw)} :
          \E fault \in FaultPoints(request[p].dry_run, fetch) :
             SyncAfterFetch(p, fetch, fault)

NextOverlap ==
    \/ \E p \in Requests, dry_run \in BOOLEAN : SyncAwaitFetch(p, dry_run)
    \/ \E p \in Requests, raw \in RawBatches : SyncResumes(p, raw)

SpecOverlap == InitOverlap /\ [][NextOverlap]_vars

UniqueProblemNumbers ==
    \A i, j \in 1..Len(problems) :
        problems[i].leetcode_number = problems[j].leetcode_number => i = j

\* Both requests have ended, both were real runs over the same fetched records,
\* one arrived while the other was in flight, and the database raised in neither.
OverlappedSameRecords ==
    /\ \A p \in Requests :
          /\ request[p].pc = "done"
          /\ ~request[p].dry_run
          /\ request[p].fault = 0
    /\ \E p \in Requests : request[p].concurrent
    /\ trace[1] # None
    /\ trace[1] = trace[2]
    /\ trace[1][1].ok

\* C29: two overlapping non-dry-run syncs over the same fetched records both end
\* with status 200, and the store has one Problem per external number and one
\* Submission per (problem, solved_date).
C29_OverlappingSyncsAgree ==
    OverlappedSameRecords =>
        /\ \A p \in Requests : response[p].status = 200
        /\ UniqueProblemNumbers
        /\ NoDuplicateSubmissions

\* Two overlapped syncs of a batch that brought a new problem.
C29_Witness ==
    /\ OverlappedSameRecords
    /\ \E p \in Requests : response[p].status = 200 /\ response[p].body.new_problems > 0

\* The step in which request p runs from the return of its fetch to its end.
Finishes(p) == request[p].pc = "fetching" /\ request'[p].pc = "done"

====
